---- MODULE Spec2Model ----
(***************************************************************************)
(* Prompt Enhancer: the two-stage pipeline of streamlit_app.py.            *)
(*   stage 1  FormatSelectorAgent.select_format   (format_selector_agent)  *)
(*   stage 2  PromptOptimizerAgent.optimize_prompt (prompt_optimizer_agent)*)
(* Each stage calls an external collaborator (ConversableAgent             *)
(* .generate_reply), extracts a brace-delimited span from the reply,       *)
(* parses and validates it, and falls back to a rule-based record.         *)
(*                                                                         *)
(* Text is modelled as a sequence of one-character strings, so that        *)
(* lower(), strip(), `in` (substring) and f-string interpolation are       *)
(* computed character by character.  Python values that come out of        *)
(* json.loads are tagged records [t, n, s]: t is the Python type, n the    *)
(* numeric value in hundredths (0.8 is 80, the int 1 is 100), s the text.  *)
(***************************************************************************)
EXTENDS Integers, Sequences, FiniteSets, TLC

VARIABLES
    pc,                \* position of the caller / of the pipeline
    user_query,        \* the text handed to select_format
    response1,         \* what generate_reply produced for stage 1 (a local of select_format)
    path1,             \* the branch select_format returned from
    msg1,              \* the message of the error the stage-1 collaborator raised
    format_result,     \* the record select_format returned
    format_dict,       \* the argument optimize_prompt was called with
    input_data,        \* the payload optimize_prompt sent to its collaborator
    response2,         \* what generate_reply produced for stage 2
    path2,             \* the branch optimize_prompt returned from
    msg2,              \* the message of the error the stage-2 collaborator raised
    optimized_result,  \* the record optimize_prompt returned
    calls1,            \* generate_reply calls made by stage 1 in this run
    calls2,            \* generate_reply calls made by stage 2 in this run
    ui                 \* what the page shows / how the script ended

vars == <<pc, user_query, response1, path1, msg1, format_result, format_dict, input_data,
          response2, path2, msg2, optimized_result, calls1, calls2, ui>>

-----------------------------------------------------------------------------
(* Bounds of the model. *)

\* a query is a concatenation of at most MaxWords pieces of the vocabulary
MaxWords == 2

\* a collaborator reply is at most MaxSegs segments long
MaxSegs == 2

-----------------------------------------------------------------------------
(* Python values. *)

Str(s) == [t |-> "str", n |-> 0, s |-> s]
Num(n) == [t |-> "num", n |-> n, s |-> <<>>]
\* bool is a subclass of int: True == 1, False == 0
PyTrue == [t |-> "bool", n |-> 100, s |-> <<>>]
PyFalse == [t |-> "bool", n |-> 0, s |-> <<>>]
PyNone == [t |-> "none", n |-> 0, s |-> <<>>]

\* bool(v)
Truthy(v) ==
    CASE v.t = "str" -> v.s # <<>>
      [] v.t = "num" -> v.n # 0
      [] v.t = "bool" -> v.n # 0
      [] v.t = "none" -> FALSE

\* isinstance(v, (int, float))
IsIntOrFloat(v) == v.t \in {"num", "bool"}

\* isinstance(v, str)
IsStr(v) == v.t = "str"

\* {} and d.get(key, default)
EmptyDict == [k \in {} |-> PyNone]

Get(d, key, default) == IF key \in DOMAIN d THEN d[key] ELSE default

-----------------------------------------------------------------------------
(* Text operations. *)

Whitespace == {" ", "\n", "\t", "\r"}

LowerChar(c) ==
    CASE c = "A" -> "a" [] c = "B" -> "b" [] c = "C" -> "c" [] c = "D" -> "d"
      [] c = "E" -> "e" [] c = "F" -> "f" [] c = "G" -> "g" [] c = "H" -> "h"
      [] c = "I" -> "i" [] c = "J" -> "j" [] c = "K" -> "k" [] c = "L" -> "l"
      [] c = "M" -> "m" [] c = "N" -> "n" [] c = "O" -> "o" [] c = "P" -> "p"
      [] c = "Q" -> "q" [] c = "R" -> "r" [] c = "S" -> "s" [] c = "T" -> "t"
      [] c = "U" -> "u" [] c = "V" -> "v" [] c = "W" -> "w" [] c = "X" -> "x"
      [] c = "Y" -> "y" [] c = "Z" -> "z" [] OTHER -> c

\* str.lower()
Lower(s) == [i \in 1..Len(s) |-> LowerChar(s[i])]

\* str.strip()
Strip(s) ==
    LET keep == {i \in 1..Len(s) : s[i] \notin Whitespace}
    IN  IF keep = {} THEN <<>>
        ELSE LET lo == CHOOSE i \in keep : \A j \in keep : i <= j
                 hi == CHOOSE i \in keep : \A j \in keep : j <= i
             IN  SubSeq(s, lo, hi)

\* k in s, for two texts
IsSubstr(k, s) ==
    \E i \in 0..(Len(s) - Len(k)) : \A j \in 1..Len(k) : s[i + j] = k[j]

\* any(keyword in s for keyword in keywords)
AnyKeywordIn(keywords, s) == \E i \in 1..Len(keywords) : IsSubstr(keywords[i], s)

\* x in values, for a list of texts and a Python value x
InList(x, values) == IsStr(x) /\ \E i \in 1..Len(values) : values[i] = x.s

-----------------------------------------------------------------------------
(* The literals of format_selector_agent.py. *)

\* valid_task_types
valid_task_types ==
    <<
    \* "Reasoning/Problem Solving"
      <<"R","e","a","s","o","n","i","n","g","/","P","r","o","b","l","e","m"," ","S","o","l","v",
        "i","n","g">>,
    \* "Coding/Programming"
      <<"C","o","d","i","n","g","/","P","r","o","g","r","a","m","m","i","n","g">>,
    \* "Research/Summarization"
      <<"R","e","s","e","a","r","c","h","/","S","u","m","m","a","r","i","z","a","t","i","o","n">>,
    \* "Open-Ended Chat/Conversation"
      <<"O","p","e","n","-","E","n","d","e","d"," ","C","h","a","t","/","C","o","n","v","e","r",
        "s","a","t","i","o","n">>,
    \* "Multimodal Request"
      <<"M","u","l","t","i","m","o","d","a","l"," ","R","e","q","u","e","s","t">>
    >>

\* valid_formats
valid_formats ==
    <<
    \* "JSON"
      <<"J","S","O","N">>,
    \* "YAML"
      <<"Y","A","M","L">>,
    \* "Markdown"
      <<"M","a","r","k","d","o","w","n">>,
    \* "Plain Text"
      <<"P","l","a","i","n"," ","T","e","x","t">>
    >>

\* coding_keywords (format_selector_agent.py)
coding_keywords ==
    <<
    \* "function"
      <<"f","u","n","c","t","i","o","n">>,
    \* "code"
      <<"c","o","d","e">>,
    \* "script"
      <<"s","c","r","i","p","t">>,
    \* "program"
      <<"p","r","o","g","r","a","m">>,
    \* "debug"
      <<"d","e","b","u","g">>,
    \* "python"
      <<"p","y","t","h","o","n">>,
    \* "javascript"
      <<"j","a","v","a","s","c","r","i","p","t">>,
    \* "java"
      <<"j","a","v","a">>,
    \* "c++"
      <<"c","+","+">>,
    \* "html"
      <<"h","t","m","l">>,
    \* "css"
      <<"c","s","s">>,
    \* "sql"
      <<"s","q","l">>,
    \* "algorithm"
      <<"a","l","g","o","r","i","t","h","m">>,
    \* "class"
      <<"c","l","a","s","s">>,
    \* "method"
      <<"m","e","t","h","o","d">>,
    \* "write code"
      <<"w","r","i","t","e"," ","c","o","d","e">>,
    \* "programming"
      <<"p","r","o","g","r","a","m","m","i","n","g">>,
    \* "syntax"
      <<"s","y","n","t","a","x">>,
    \* "api"
      <<"a","p","i">>,
    \* "database"
      <<"d","a","t","a","b","a","s","e">>,
    \* "framework"
      <<"f","r","a","m","e","w","o","r","k">>
    >>

\* reasoning_keywords (format_selector_agent.py)
reasoning_keywords ==
    <<
    \* "solve"
      <<"s","o","l","v","e">>,
    \* "calculate"
      <<"c","a","l","c","u","l","a","t","e">>,
    \* "math"
      <<"m","a","t","h">>,
    \* "logic"
      <<"l","o","g","i","c">>,
    \* "step by step"
      <<"s","t","e","p"," ","b","y"," ","s","t","e","p">>,
    \* "analyze"
      <<"a","n","a","l","y","z","e">>,
    \* "problem"
      <<"p","r","o","b","l","e","m">>,
    \* "plan"
      <<"p","l","a","n">>,
    \* "strategy"
      <<"s","t","r","a","t","e","g","y">>,
    \* "optimize"
      <<"o","p","t","i","m","i","z","e">>,
    \* "decision"
      <<"d","e","c","i","s","i","o","n">>,
    \* "compare"
      <<"c","o","m","p","a","r","e">>,
    \* "evaluate"
      <<"e","v","a","l","u","a","t","e">>,
    \* "reasoning"
      <<"r","e","a","s","o","n","i","n","g">>,
    \* "proof"
      <<"p","r","o","o","f">>,
    \* "derive"
      <<"d","e","r","i","v","e">>
    >>

\* research_keywords (format_selector_agent.py)
research_keywords ==
    <<
    \* "summarize"
      <<"s","u","m","m","a","r","i","z","e">>,
    \* "summary"
      <<"s","u","m","m","a","r","y">>,
    \* "research"
      <<"r","e","s","e","a","r","c","h">>,
    \* "paper"
      <<"p","a","p","e","r">>,
    \* "report"
      <<"r","e","p","o","r","t">>,
    \* "analysis"
      <<"a","n","a","l","y","s","i","s">>,
    \* "review"
      <<"r","e","v","i","e","w">>,
    \* "literature"
      <<"l","i","t","e","r","a","t","u","r","e">>,
    \* "study"
      <<"s","t","u","d","y">>,
    \* "findings"
      <<"f","i","n","d","i","n","g","s">>,
    \* "evidence"
      <<"e","v","i","d","e","n","c","e">>,
    \* "data"
      <<"d","a","t","a">>,
    \* "conclusion"
      <<"c","o","n","c","l","u","s","i","o","n">>,
    \* "abstract"
      <<"a","b","s","t","r","a","c","t">>,
    \* "overview"
      <<"o","v","e","r","v","i","e","w">>,
    \* "survey"
      <<"s","u","r","v","e","y">>
    >>

\* multimodal_keywords (format_selector_agent.py)
multimodal_keywords ==
    <<
    \* "image"
      <<"i","m","a","g","e">>,
    \* "picture"
      <<"p","i","c","t","u","r","e">>,
    \* "video"
      <<"v","i","d","e","o">>,
    \* "audio"
      <<"a","u","d","i","o">>,
    \* "generate"
      <<"g","e","n","e","r","a","t","e">>,
    \* "create visual"
      <<"c","r","e","a","t","e"," ","v","i","s","u","a","l">>,
    \* "diagram"
      <<"d","i","a","g","r","a","m">>,
    \* "chart"
      <<"c","h","a","r","t">>,
    \* "graph"
      <<"g","r","a","p","h">>,
    \* "illustration"
      <<"i","l","l","u","s","t","r","a","t","i","o","n">>,
    \* "design"
      <<"d","e","s","i","g","n">>,
    \* "photo"
      <<"p","h","o","t","o">>
    >>

\* "Rule-based classification used"
RULE_BASED_CLASSIFICATION ==
    <<"R","u","l","e","-","b","a","s","e","d"," ","c","l","a","s","s","i","f","i","c","a","t",
      "i","o","n"," ","u","s","e","d">>

\* "LLM error: "
LLM_ERROR ==
    <<"L","L","M"," ","e","r","r","o","r",":"," ">>

\* "JSON"
JSON_FORMAT ==
    <<"J","S","O","N">>

\* "YAML"
YAML_FORMAT ==
    <<"Y","A","M","L">>

\* "Markdown"
MARKDOWN_FORMAT ==
    <<"M","a","r","k","d","o","w","n">>

\* "Plain Text"
PLAIN_TEXT_FORMAT ==
    <<"P","l","a","i","n"," ","T","e","x","t">>

\* "Coding/Programming"
CODING ==
    <<"C","o","d","i","n","g","/","P","r","o","g","r","a","m","m","i","n","g">>

\* "Reasoning/Problem Solving"
REASONING ==
    <<"R","e","a","s","o","n","i","n","g","/","P","r","o","b","l","e","m"," ","S","o","l","v",
      "i","n","g">>

\* "Research/Summarization"
RESEARCH ==
    <<"R","e","s","e","a","r","c","h","/","S","u","m","m","a","r","i","z","a","t","i","o","n">>

\* "Multimodal Request"
MULTIMODAL ==
    <<"M","u","l","t","i","m","o","d","a","l"," ","R","e","q","u","e","s","t">>

\* "Open-Ended Chat/Conversation"
OPEN_ENDED_CHAT ==
    <<"O","p","e","n","-","E","n","d","e","d"," ","C","h","a","t","/","C","o","n","v","e","r",
      "s","a","t","i","o","n">>


-----------------------------------------------------------------------------
(* Inputs: the queries a caller may type. *)

\* "api"
W_API ==
    <<"a","p","i">>

\* "summarize"
W_SUMMARIZE ==
    <<"s","u","m","m","a","r","i","z","e">>

\* " this "
W_THIS ==
    <<" ","t","h","i","s"," ">>

\* "Solve"
W_SOLVE ==
    <<"S","o","l","v","e">>

\* "IMAGE"
W_IMAGE ==
    <<"I","M","A","G","E">>

\* "data"
W_DATA ==
    <<"d","a","t","a">>

\* "base"
W_BASE ==
    <<"b","a","s","e">>

\* "a"
W_A ==
    <<"a">>

\* "pi"
W_PI ==
    <<"p","i">>

\* " "
W_SPACE ==
    <<" ">>

\* "\n"
W_NEWLINE ==
    <<"\n">>

\* "tell me a joke"
W_JOKE ==
    <<"t","e","l","l"," ","m","e"," ","a"," ","j","o","k","e">>

\* "chart"
W_CHART ==
    <<"c","h","a","r","t">>

\* "Plan"
W_PLAN ==
    <<"P","l","a","n">>

\* "summarize this api response"
W_EXAMPLE ==
    <<"s","u","m","m","a","r","i","z","e"," ","t","h","i","s"," ","a","p","i"," ","r","e","s",
      "p","o","n","s","e">>

\* " Hello "
W_HELLO ==
    <<" ","H","e","l","l","o"," ">>

\* the pieces queries are built from: keywords of each of the four sets, in
\* either case, halves of keywords ("a" + "pi", "data" + "base"), white space,
\* and text that holds no keyword
Vocabulary ==
    {W_API, W_SUMMARIZE, W_THIS, W_SOLVE, W_IMAGE, W_DATA, W_BASE, W_A, W_PI,
     W_SPACE, W_NEWLINE, W_JOKE, W_CHART, W_PLAN, W_EXAMPLE}

\* the pieces of the queries the two-stage runs are driven with
PipelineVocabulary == {W_API, W_SOLVE, W_DATA, W_IMAGE, W_HELLO}

RECURSIVE Phrases(_, _)
Phrases(words, n) ==
    IF n = 0 THEN {<<>>}
    ELSE LET shorter == Phrases(words, n - 1)
         IN  shorter \cup {p \o w : p \in shorter, w \in words}

Queries == Phrases(Vocabulary, MaxWords)

\* the empty query, a query of white space, one query per piece, and queries
\* that hold keywords of two sets
PipelineQueries ==
    {<<>>, W_SPACE} \cup PipelineVocabulary
        \cup {W_SOLVE \o W_SPACE \o W_API, W_IMAGE \o W_SPACE \o W_DATA}

\* the messages a raised error may carry: str(e) is empty for Exception()
\* "timed out"
MSG_TIMEOUT ==
    <<"t","i","m","e","d"," ","o","u","t">>

Messages == {<<>>, MSG_TIMEOUT}

-----------------------------------------------------------------------------
(* FormatSelectorAgent._apply_fallback_classification(user_query, error)   *)
(* error is None when the caller passes none.                              *)

FallbackReason1(error) ==
    IF Truthy(error)
    THEN Str(LLM_ERROR \o error.s)
    ELSE Str(RULE_BASED_CLASSIFICATION)

\* a variant that tests the reasoning keywords before the coding keywords
_apply_fallback_classification_ReasoningFirst(query, error) ==
    LET query_lower == Strip(Lower(query))
        triple ==
            IF AnyKeywordIn(reasoning_keywords, query_lower)
            THEN <<REASONING, YAML_FORMAT, 75>>
            ELSE IF AnyKeywordIn(coding_keywords, query_lower)
            THEN <<CODING, JSON_FORMAT, 80>>
            ELSE IF AnyKeywordIn(research_keywords, query_lower)
            THEN <<RESEARCH, MARKDOWN_FORMAT, 85>>
            ELSE IF AnyKeywordIn(multimodal_keywords, query_lower)
            THEN <<MULTIMODAL, JSON_FORMAT, 70>>
            ELSE <<OPEN_ENDED_CHAT, PLAIN_TEXT_FORMAT, 60>>
    IN  [task_type |-> Str(triple[1]),
         chosen_format |-> Str(triple[2]),
         confidence |-> Num(triple[3]),
         original_query |-> Str(query),
         fallback_reason |-> FallbackReason1(error)]

\* a variant that stores the lower-cased, stripped query as original_query
_apply_fallback_classification_LowerQuery(query, error) ==
    LET query_lower == Strip(Lower(query))
        triple ==
            IF AnyKeywordIn(coding_keywords, query_lower)
            THEN <<CODING, JSON_FORMAT, 80>>
            ELSE IF AnyKeywordIn(reasoning_keywords, query_lower)
            THEN <<REASONING, YAML_FORMAT, 75>>
            ELSE IF AnyKeywordIn(research_keywords, query_lower)
            THEN <<RESEARCH, MARKDOWN_FORMAT, 85>>
            ELSE IF AnyKeywordIn(multimodal_keywords, query_lower)
            THEN <<MULTIMODAL, JSON_FORMAT, 70>>
            ELSE <<OPEN_ENDED_CHAT, PLAIN_TEXT_FORMAT, 60>>
    IN  [task_type |-> Str(triple[1]),
         chosen_format |-> Str(triple[2]),
         confidence |-> Num(triple[3]),
         original_query |-> Str(query_lower),
         fallback_reason |-> FallbackReason1(error)]

_apply_fallback_classification(query, error) ==
    LET query_lower == Strip(Lower(query))
        triple ==
            IF AnyKeywordIn(coding_keywords, query_lower)
            THEN <<CODING, JSON_FORMAT, 80>>
            ELSE IF AnyKeywordIn(reasoning_keywords, query_lower)
            THEN <<REASONING, YAML_FORMAT, 75>>
            ELSE IF AnyKeywordIn(research_keywords, query_lower)
            THEN <<RESEARCH, MARKDOWN_FORMAT, 85>>
            ELSE IF AnyKeywordIn(multimodal_keywords, query_lower)
            THEN <<MULTIMODAL, JSON_FORMAT, 70>>
            ELSE <<OPEN_ENDED_CHAT, PLAIN_TEXT_FORMAT, 60>>
    IN  [task_type |-> Str(triple[1]),
         chosen_format |-> Str(triple[2]),
         confidence |-> Num(triple[3]),
         original_query |-> Str(query),
         fallback_reason |-> FallbackReason1(error)]

-----------------------------------------------------------------------------
(* The literals of prompt_optimizer_agent.py. *)

\* valid_model_classes
valid_model_classes ==
    <<
    \* "Reasoning LLM"
      <<"R","e","a","s","o","n","i","n","g"," ","L","L","M">>,
    \* "Code-specialized LLM"
      <<"C","o","d","e","-","s","p","e","c","i","a","l","i","z","e","d"," ","L","L","M">>,
    \* "Research/long-context LLM"
      <<"R","e","s","e","a","r","c","h","/","l","o","n","g","-","c","o","n","t","e","x","t"," ",
        "L","L","M">>,
    \* "General chat LLM"
      <<"G","e","n","e","r","a","l"," ","c","h","a","t"," ","L","L","M">>,
    \* "Multimodal generator"
      <<"M","u","l","t","i","m","o","d","a","l"," ","g","e","n","e","r","a","t","o","r">>
    >>

\* "Reasoning LLM"
REASONING_LLM ==
    <<"R","e","a","s","o","n","i","n","g"," ","L","L","M">>

\* "Code-specialized LLM"
CODE_LLM ==
    <<"C","o","d","e","-","s","p","e","c","i","a","l","i","z","e","d"," ","L","L","M">>

\* "Research/long-context LLM"
RESEARCH_LLM ==
    <<"R","e","s","e","a","r","c","h","/","l","o","n","g","-","c","o","n","t","e","x","t"," ",
      "L","L","M">>

\* "General chat LLM"
GENERAL_CHAT_LLM ==
    <<"G","e","n","e","r","a","l"," ","c","h","a","t"," ","L","L","M">>

\* "Multimodal generator"
MULTIMODAL_GENERATOR ==
    <<"M","u","l","t","i","m","o","d","a","l"," ","g","e","n","e","r","a","t","o","r">>

\* "Rule-based optimization used"
RULE_BASED_OPTIMIZATION ==
    <<"R","u","l","e","-","b","a","s","e","d"," ","o","p","t","i","m","i","z","a","t","i","o",
      "n"," ","u","s","e","d">>

\* the four f-string templates, each split at {original_query}
\* "Please respond in valid JSON format. \n\nTask: "
JSON_TEMPLATE_HEAD ==
    <<"P","l","e","a","s","e"," ","r","e","s","p","o","n","d"," ","i","n"," ","v","a","l","i",
      "d"," ","J","S","O","N"," ","f","o","r","m","a","t","."," ","\n","\n","T","a","s","k",":",
      " ">>

\* "\n\nRequirements:\n- Provide structured output\n- Include all relevant fields\n- Ensure JSON is properly formatted\n- Be comprehensive and accurate"
JSON_TEMPLATE_TAIL ==
    <<"\n","\n","R","e","q","u","i","r","e","m","e","n","t","s",":","\n","-"," ","P","r","o",
      "v","i","d","e"," ","s","t","r","u","c","t","u","r","e","d"," ","o","u","t","p","u","t",
      "\n","-"," ","I","n","c","l","u","d","e"," ","a","l","l"," ","r","e","l","e","v","a","n",
      "t"," ","f","i","e","l","d","s","\n","-"," ","E","n","s","u","r","e"," ","J","S","O","N",
      " ","i","s"," ","p","r","o","p","e","r","l","y"," ","f","o","r","m","a","t","t","e","d",
      "\n","-"," ","B","e"," ","c","o","m","p","r","e","h","e","n","s","i","v","e"," ","a","n",
      "d"," ","a","c","c","u","r","a","t","e">>

\* "Please respond in YAML format with clear structure.\n\nTask: "
YAML_TEMPLATE_HEAD ==
    <<"P","l","e","a","s","e"," ","r","e","s","p","o","n","d"," ","i","n"," ","Y","A","M","L",
      " ","f","o","r","m","a","t"," ","w","i","t","h"," ","c","l","e","a","r"," ","s","t","r",
      "u","c","t","u","r","e",".","\n","\n","T","a","s","k",":"," ">>

\* "\n\nRequirements:\n- Use step-by-step reasoning\n- Show your workflow clearly\n- Include intermediate steps\n- Maintain proper YAML syntax"
YAML_TEMPLATE_TAIL ==
    <<"\n","\n","R","e","q","u","i","r","e","m","e","n","t","s",":","\n","-"," ","U","s","e",
      " ","s","t","e","p","-","b","y","-","s","t","e","p"," ","r","e","a","s","o","n","i","n",
      "g","\n","-"," ","S","h","o","w"," ","y","o","u","r"," ","w","o","r","k","f","l","o","w",
      " ","c","l","e","a","r","l","y","\n","-"," ","I","n","c","l","u","d","e"," ","i","n","t",
      "e","r","m","e","d","i","a","t","e"," ","s","t","e","p","s","\n","-"," ","M","a","i","n",
      "t","a","i","n"," ","p","r","o","p","e","r"," ","Y","A","M","L"," ","s","y","n","t","a",
      "x">>

\* "Please respond in well-structured Markdown format.\n\n## Task\n"
MARKDOWN_TEMPLATE_HEAD ==
    <<"P","l","e","a","s","e"," ","r","e","s","p","o","n","d"," ","i","n"," ","w","e","l","l",
      "-","s","t","r","u","c","t","u","r","e","d"," ","M","a","r","k","d","o","w","n"," ","f",
      "o","r","m","a","t",".","\n","\n","#","#"," ","T","a","s","k","\n">>

\* "\n\n## Requirements\n- Use clear headings and sections\n- Provide comprehensive explanations\n- Include examples where relevant\n- Maintain readability"
MARKDOWN_TEMPLATE_TAIL ==
    <<"\n","\n","#","#"," ","R","e","q","u","i","r","e","m","e","n","t","s","\n","-"," ","U",
      "s","e"," ","c","l","e","a","r"," ","h","e","a","d","i","n","g","s"," ","a","n","d"," ",
      "s","e","c","t","i","o","n","s","\n","-"," ","P","r","o","v","i","d","e"," ","c","o","m",
      "p","r","e","h","e","n","s","i","v","e"," ","e","x","p","l","a","n","a","t","i","o","n",
      "s","\n","-"," ","I","n","c","l","u","d","e"," ","e","x","a","m","p","l","e","s"," ","w",
      "h","e","r","e"," ","r","e","l","e","v","a","n","t","\n","-"," ","M","a","i","n","t","a",
      "i","n"," ","r","e","a","d","a","b","i","l","i","t","y">>

\* "Task: "
PLAIN_TEMPLATE_HEAD ==
    <<"T","a","s","k",":"," ">>

\* "\n\nPlease provide a clear, comprehensive response that:\n- Addresses all aspects of the question\n- Uses simple, understandable language\n- Includes relevant examples or explanations\n- Is well-organized and easy to follow"
PLAIN_TEMPLATE_TAIL ==
    <<"\n","\n","P","l","e","a","s","e"," ","p","r","o","v","i","d","e"," ","a"," ","c","l","e",
      "a","r",","," ","c","o","m","p","r","e","h","e","n","s","i","v","e"," ","r","e","s","p",
      "o","n","s","e"," ","t","h","a","t",":","\n","-"," ","A","d","d","r","e","s","s","e","s",
      " ","a","l","l"," ","a","s","p","e","c","t","s"," ","o","f"," ","t","h","e"," ","q","u",
      "e","s","t","i","o","n","\n","-"," ","U","s","e","s"," ","s","i","m","p","l","e",","," ",
      "u","n","d","e","r","s","t","a","n","d","a","b","l","e"," ","l","a","n","g","u","a","g",
      "e","\n","-"," ","I","n","c","l","u","d","e","s"," ","r","e","l","e","v","a","n","t"," ",
      "e","x","a","m","p","l","e","s"," ","o","r"," ","e","x","p","l","a","n","a","t","i","o",
      "n","s","\n","-"," ","I","s"," ","w","e","l","l","-","o","r","g","a","n","i","z","e","d",
      " ","a","n","d"," ","e","a","s","y"," ","t","o"," ","f","o","l","l","o","w">>

-----------------------------------------------------------------------------
(* PromptOptimizerAgent._apply_fallback_optimization(format_dict, error)   *)

FallbackReason2(error) ==
    IF Truthy(error)
    THEN Str(LLM_ERROR \o error.s)
    ELSE Str(RULE_BASED_OPTIMIZATION)

\* format(v) inside an f-string, for the values a decision's original_query
\* takes here: text, None and the booleans
\* "None"
NONE_TEXT ==
    <<"N","o","n","e">>

\* "True"
TRUE_TEXT ==
    <<"T","r","u","e">>

\* "False"
FALSE_TEXT ==
    <<"F","a","l","s","e">>

PyFormat(v) ==
    CASE v.t = "str" -> v.s
      [] v.t = "none" -> NONE_TEXT
      [] v.t = "bool" -> IF v.n # 0 THEN TRUE_TEXT ELSE FALSE_TEXT

\* a variant that embeds the stripped query
FallbackPrompt_Stripped(chosen_format, original_query) ==
    IF chosen_format = Str(JSON_FORMAT)
    THEN JSON_TEMPLATE_HEAD \o Strip(PyFormat(original_query)) \o JSON_TEMPLATE_TAIL
    ELSE IF chosen_format = Str(YAML_FORMAT)
    THEN YAML_TEMPLATE_HEAD \o Strip(PyFormat(original_query)) \o YAML_TEMPLATE_TAIL
    ELSE IF chosen_format = Str(MARKDOWN_FORMAT)
    THEN MARKDOWN_TEMPLATE_HEAD \o Strip(PyFormat(original_query)) \o MARKDOWN_TEMPLATE_TAIL
    ELSE PLAIN_TEMPLATE_HEAD \o Strip(PyFormat(original_query)) \o PLAIN_TEMPLATE_TAIL

\* the f-string template chosen by chosen_format, around original_query
FallbackPrompt(chosen_format, original_query) ==
    IF chosen_format = Str(JSON_FORMAT)
    THEN JSON_TEMPLATE_HEAD \o PyFormat(original_query) \o JSON_TEMPLATE_TAIL
    ELSE IF chosen_format = Str(YAML_FORMAT)
    THEN YAML_TEMPLATE_HEAD \o PyFormat(original_query) \o YAML_TEMPLATE_TAIL
    ELSE IF chosen_format = Str(MARKDOWN_FORMAT)
    THEN MARKDOWN_TEMPLATE_HEAD \o PyFormat(original_query) \o MARKDOWN_TEMPLATE_TAIL
    ELSE PLAIN_TEMPLATE_HEAD \o PyFormat(original_query) \o PLAIN_TEMPLATE_TAIL

\* a variant that compares task_type for equality instead of containment
FallbackModelClass_ExactMatch(task_type) ==
    IF task_type.s = CODING THEN CODE_LLM
    ELSE IF task_type.s = REASONING THEN REASONING_LLM
    ELSE IF task_type.s = RESEARCH THEN RESEARCH_LLM
    ELSE IF task_type.s = MULTIMODAL THEN MULTIMODAL_GENERATOR
    ELSE GENERAL_CHAT_LLM

\* the model class chosen by substring tests on task_type
FallbackModelClass(task_type) ==
    IF IsSubstr(CODING, task_type.s) THEN CODE_LLM
    ELSE IF IsSubstr(REASONING, task_type.s) THEN REASONING_LLM
    ELSE IF IsSubstr(RESEARCH, task_type.s) THEN RESEARCH_LLM
    ELSE IF IsSubstr(MULTIMODAL, task_type.s) THEN MULTIMODAL_GENERATOR
    ELSE GENERAL_CHAT_LLM

_apply_fallback_optimization(fdict, error) ==
    LET original_query == Get(fdict, "original_query", Str(<<>>))
        chosen_format == Get(fdict, "chosen_format", Str(PLAIN_TEXT_FORMAT))
        task_type == Get(fdict, "task_type", Str(<<>>))
    IN  [optimized_prompt |-> Str(FallbackPrompt(chosen_format, original_query)),
         model_class |-> Str(FallbackModelClass(task_type)),
         fallback_reason |-> FallbackReason2(error)]

-----------------------------------------------------------------------------
(* The collaborator: ConversableAgent.generate_reply.  It raises, or it    *)
(* returns a reply.  The text of a reply is a sequence of segments:        *)
(*   "prose"   text without braces                                         *)
(*   "{" "}"   a stray brace                                               *)
(*   "object"  the text of one well-formed JSON object, whose content is   *)
(*             the reply's doc                                             *)
(* A reply may also be a dict whose "content" is None ("no_content").      *)

Segments == {"prose", "{", "}", "object"}

Shapes == UNION {[1..k -> Segments] : k \in 0..MaxSegs}

Raised(m) == [kind |-> "raise", msg |-> m, text |-> <<>>, doc |-> EmptyDict]

Reply(text, doc) == [kind |-> "reply", msg |-> <<>>, text |-> text, doc |-> doc]

NoContent == [kind |-> "no_content", msg |-> <<>>, text |-> <<>>, doc |-> EmptyDict]

NoResponse == [kind |-> "none", msg |-> <<>>, text |-> <<>>, doc |-> EmptyDict]

\* a key that is absent, or present with one of the values
Field(key, values) == {EmptyDict} \cup {key :> v : v \in values}

\* the documents a stage-1 reply may hold: each key absent or present, with
\* values inside and outside what the validation accepts
Docs1 ==
    {a @@ b @@ c @@ d @@ e :
        a \in Field("task_type", {Str(RESEARCH), Str(Lower(RESEARCH)), PyNone}),
        b \in Field("chosen_format", {Str(YAML_FORMAT), Str(Lower(JSON_FORMAT))}),
        c \in Field("confidence",
                    {Num(0), Num(100), Num(101), Num(0 - 1), PyTrue, Str(W_PI), PyNone}),
        d \in Field("original_query", {Str(W_API), PyNone}),
        e \in Field("fallback_reason", {Str(W_HELLO)})}

\* a document that answers the stage-1 system message
ValidDoc1 ==
    [task_type |-> Str(CODING), chosen_format |-> Str(JSON_FORMAT),
     confidence |-> Num(90), original_query |-> Str(W_API)]

Responses1 ==
    {Raised(m) : m \in Messages} \cup {NoContent}
        \cup {Reply(t, ValidDoc1) : t \in Shapes}
        \cup {Reply(<<"object">>, d) : d \in Docs1}

\* the documents a stage-2 reply may hold
Docs2 ==
    {a @@ b @@ c :
        a \in Field("optimized_prompt",
                    {Str(W_EXAMPLE), Str(<<>>), Num(100), PyNone}),
        b \in Field("model_class", {Str(REASONING_LLM), Str(Lower(REASONING_LLM))}),
        c \in Field("fallback_reason", {Str(W_HELLO)})}

ValidDoc2 == [optimized_prompt |-> Str(W_EXAMPLE), model_class |-> Str(CODE_LLM)]

Responses2 ==
    {Raised(m) : m \in Messages} \cup {NoContent}
        \cup {Reply(t, ValidDoc2) : t \in Shapes}
        \cup {Reply(<<"object">>, d) : d \in Docs2}

-----------------------------------------------------------------------------
(* Extraction and parsing, the same in both stages.                        *)

\* re.search(r"\{.*\}", response_text, re.DOTALL): from the first opening
\* brace to the last closing brace after it
re_search(text) ==
    LET opens == {i \in 1..Len(text) : text[i] \in {"{", "object"}}
    IN  IF opens = {} THEN [found |-> FALSE, span |-> <<>>]
        ELSE LET first == CHOOSE i \in opens : \A j \in opens : i <= j
                 closes == {j \in first..Len(text) :
                               \/ text[j] = "object"
                               \/ text[j] = "}" /\ j > first}
             IN  IF closes = {} THEN [found |-> FALSE, span |-> <<>>]
                 ELSE LET last == CHOOSE j \in closes : \A k \in closes : k <= j
                      IN  [found |-> TRUE, span |-> SubSeq(text, first, last)]

\* json.loads(match.group()): the span is one object, or "{}", or it raises
json_loads(span, doc) ==
    IF span = <<"object">> THEN [ok |-> TRUE, value |-> doc]
    ELSE IF span = <<"{", "}">> THEN [ok |-> TRUE, value |-> EmptyDict]
    ELSE [ok |-> FALSE, value |-> EmptyDict]

-----------------------------------------------------------------------------
(* FormatSelectorAgent *)

FormatSelector_required_keys == {"task_type", "chosen_format", "confidence", "original_query"}

\* a variant without the upper end of the confidence range
FormatSelector_is_valid_response_NoUpperBound(result) ==
    /\ FormatSelector_required_keys \subseteq DOMAIN result
    /\ InList(result["task_type"], valid_task_types)
    /\ InList(result["chosen_format"], valid_formats)
    /\ IsIntOrFloat(result["confidence"])
    /\ 0 <= result["confidence"].n

\* a variant that only tests that the required keys are present
FormatSelector_is_valid_response_KeysOnly(result) ==
    FormatSelector_required_keys \subseteq DOMAIN result

FormatSelector_is_valid_response(result) ==
    /\ FormatSelector_required_keys \subseteq DOMAIN result
    /\ InList(result["task_type"], valid_task_types)
    /\ InList(result["chosen_format"], valid_formats)
    /\ IsIntOrFloat(result["confidence"])
    /\ 0 <= result["confidence"].n
    /\ result["confidence"].n <= 100

\* select_format(user_query), given what generate_reply did: the branch it
\* returns from and the record it returns
select_format(query, response) ==
    IF response.kind = "raise"
    THEN [path |-> "raised",
          value |-> _apply_fallback_classification(query, Str(response.msg))]
    ELSE IF response.kind = "no_content"
    THEN \* response_text is None: re.search raises TypeError, caught at line 103
         [path |-> "type_error", value |-> _apply_fallback_classification(query, PyNone)]
    ELSE LET match == re_search(response.text)
         IN  IF ~match.found
             THEN [path |-> "no_span",
                   value |-> _apply_fallback_classification(query, PyNone)]
             ELSE LET parsed == json_loads(match.span, response.doc)
                  IN  IF ~parsed.ok
                      THEN [path |-> "parse_error",
                            value |-> _apply_fallback_classification(query, PyNone)]
                      ELSE IF FormatSelector_is_valid_response(parsed.value)
                      THEN [path |-> "success", value |-> parsed.value]
                      ELSE [path |-> "invalid",
                            value |-> _apply_fallback_classification(query, PyNone)]

-----------------------------------------------------------------------------
(* PromptOptimizerAgent *)

PromptOptimizer_required_keys == {"optimized_prompt", "model_class"}

PromptOptimizer_is_valid_response(result) ==
    /\ PromptOptimizer_required_keys \subseteq DOMAIN result
    /\ InList(result["model_class"], valid_model_classes)
    /\ Truthy(result["optimized_prompt"])
    /\ IsStr(result["optimized_prompt"])

\* input_data, the payload sent to the collaborator (json.dumps of it)
InputData(fdict) ==
    [original_query |-> Get(fdict, "original_query", Str(<<>>)),
     chosen_format |-> Get(fdict, "chosen_format", Str(PLAIN_TEXT_FORMAT)),
     task_type |-> Get(fdict, "task_type", Str(<<>>)),
     confidence |-> Get(fdict, "confidence", Num(50))]

optimize_prompt(fdict, response) ==
    IF response.kind = "raise"
    THEN [path |-> "raised",
          value |-> _apply_fallback_optimization(fdict, Str(response.msg))]
    ELSE IF response.kind = "no_content"
    THEN [path |-> "type_error", value |-> _apply_fallback_optimization(fdict, PyNone)]
    ELSE LET match == re_search(response.text)
         IN  IF ~match.found
             THEN [path |-> "no_span",
                   value |-> _apply_fallback_optimization(fdict, PyNone)]
             ELSE LET parsed == json_loads(match.span, response.doc)
                  IN  IF ~parsed.ok
                      THEN [path |-> "parse_error",
                            value |-> _apply_fallback_optimization(fdict, PyNone)]
                      ELSE IF PromptOptimizer_is_valid_response(parsed.value)
                      THEN [path |-> "success", value |-> parsed.value]
                      ELSE [path |-> "invalid",
                            value |-> _apply_fallback_optimization(fdict, PyNone)]

-----------------------------------------------------------------------------
(* The steps of one pipeline run. *)

\* a variant that hands over only the query and the chosen format
PassedToOptimizer_QueryAndFormat(result) ==
    [original_query |-> result["original_query"],
     chosen_format |-> result["chosen_format"]]

\* what the handler hands to optimize_prompt: format_result itself
PassedToOptimizer(result) == result

\* select_format calls generate_reply, which raises or replies
SelectFormatCall ==
    /\ pc = "select_format"
    /\ \E r \in Responses1 : response1' = r
    /\ calls1' = calls1 + 1
    /\ pc' = "select_format_reply"
    /\ UNCHANGED <<user_query, path1, msg1, format_result, format_dict, input_data,
                   response2, path2, msg2, optimized_result, calls2, ui>>

\* select_format extracts, parses, validates and returns
SelectFormatReturn ==
    /\ pc = "select_format_reply"
    /\ LET out == select_format(user_query, response1)
       IN  /\ format_result' = out.value
           /\ path1' = out.path
    /\ msg1' = response1.msg
    /\ response1' = NoResponse
    /\ pc' = "optimize_prompt"
    /\ UNCHANGED <<user_query, format_dict, input_data, response2, path2, msg2,
                   optimized_result, calls1, calls2, ui>>

\* the caller passes the record on; optimize_prompt builds its payload and
\* calls generate_reply
OptimizePromptCall ==
    /\ pc = "optimize_prompt"
    /\ format_dict' = PassedToOptimizer(format_result)
    /\ input_data' = InputData(format_dict')
    /\ \E r \in Responses2 : response2' = r
    /\ calls2' = calls2 + 1
    /\ pc' = "optimize_prompt_reply"
    /\ UNCHANGED <<user_query, response1, path1, msg1, format_result, path2, msg2,
                   optimized_result, calls1, ui>>

\* optimize_prompt extracts, parses, validates and returns
OptimizePromptReturn ==
    /\ pc = "optimize_prompt_reply"
    /\ LET out == optimize_prompt(format_dict, response2)
       IN  /\ optimized_result' = out.value
           /\ path2' = out.path
    /\ msg2' = response2.msg
    /\ response2' = NoResponse
    /\ pc' = "display"
    /\ UNCHANGED <<user_query, response1, path1, msg1, format_result, format_dict,
                   input_data, calls1, calls2, ui>>

-----------------------------------------------------------------------------
(* streamlit_app.py: the script and its "Enhance Prompt" handler. *)

\* load_agents() at module level builds both agents
LoadAgents ==
    /\ pc = "load_agents"
    /\ pc' = "idle"
    /\ UNCHANGED <<user_query, response1, path1, msg1, format_result, format_dict,
                   input_data, response2, path2, msg2, optimized_result, calls1, calls2, ui>>

\* a ConversableAgent constructor raises: nothing around line 14 catches it
LoadAgentsRaises ==
    /\ pc = "load_agents"
    /\ pc' = "crashed"
    /\ ui' = "traceback"
    /\ UNCHANGED <<user_query, response1, path1, msg1, format_result, format_dict,
                   input_data, response2, path2, msg2, optimized_result, calls1, calls2>>

\* the button is pressed on a query that is empty after strip()
ClickBlank ==
    /\ pc = "idle"
    /\ \E q \in PipelineQueries :
          /\ Strip(q) = <<>>
          /\ user_query' = q
    /\ ui' = "warning"
    /\ pc' = "shown"
    /\ UNCHANGED <<response1, path1, msg1, format_result, format_dict, input_data,
                   response2, path2, msg2, optimized_result, calls1, calls2>>

\* the button is pressed on a query: the handler enters its try block
ClickEnhance ==
    /\ pc = "idle"
    /\ \E q \in PipelineQueries :
          /\ Strip(q) # <<>>
          /\ user_query' = q
    /\ pc' = "select_format"
    /\ ui' = "spinner"
    /\ UNCHANGED <<response1, path1, msg1, format_result, format_dict, input_data,
                   response2, path2, msg2, optimized_result, calls1, calls2>>

\* st.json shows both records
Display ==
    /\ pc = "display"
    /\ ui' = "results"
    /\ pc' = "shown"
    /\ UNCHANGED <<user_query, response1, path1, msg1, format_result, format_dict,
                   input_data, response2, path2, msg2, optimized_result, calls1, calls2>>

\* a call inside the handler's try block raises: st.error shows the message
DisplayRaises ==
    /\ pc = "display"
    /\ ui' = "error"
    /\ pc' = "shown"
    /\ UNCHANGED <<user_query, response1, path1, msg1, format_result, format_dict,
                   input_data, response2, path2, msg2, optimized_result, calls1, calls2>>

\* the state of a script run that has not handled a click yet
Blank ==
    /\ user_query = <<>>
    /\ response1 = NoResponse
    /\ response2 = NoResponse
    /\ path1 = "none"
    /\ path2 = "none"
    /\ msg1 = <<>>
    /\ msg2 = <<>>
    /\ format_result = PyNone
    /\ format_dict = PyNone
    /\ input_data = PyNone
    /\ optimized_result = PyNone
    /\ calls1 = 0
    /\ calls2 = 0
    /\ ui = "blank"

\* the page is used again: Streamlit runs the script from the top, with the
\* agents cached by st.cache_resource
Rerun ==
    /\ pc = "shown"
    /\ pc' = "idle"
    /\ user_query' = <<>>
    /\ response1' = NoResponse
    /\ response2' = NoResponse
    /\ path1' = "none"
    /\ path2' = "none"
    /\ msg1' = <<>>
    /\ msg2' = <<>>
    /\ format_result' = PyNone
    /\ format_dict' = PyNone
    /\ input_data' = PyNone
    /\ optimized_result' = PyNone
    /\ calls1' = 0
    /\ calls2' = 0
    /\ ui' = "blank"

Init ==
    /\ pc = "load_agents"
    /\ Blank

Next ==
    \/ LoadAgents
    \/ LoadAgentsRaises
    \/ ClickBlank
    \/ ClickEnhance
    \/ SelectFormatCall
    \/ SelectFormatReturn
    \/ OptimizePromptCall
    \/ OptimizePromptReturn
    \/ Display
    \/ DisplayRaises
    \/ Rerun

Spec == Init /\ [][Next]_vars

-----------------------------------------------------------------------------
(* The two public operations called directly, on any query. *)

InitStages ==
    /\ pc = "select_format"
    /\ user_query \in PipelineQueries
    /\ response1 = NoResponse
    /\ response2 = NoResponse
    /\ path1 = "none"
    /\ path2 = "none"
    /\ msg1 = <<>>
    /\ msg2 = <<>>
    /\ format_result = PyNone
    /\ format_dict = PyNone
    /\ input_data = PyNone
    /\ optimized_result = PyNone
    /\ calls1 = 0
    /\ calls2 = 0
    /\ ui = "blank"

NextStages ==
    \/ SelectFormatCall
    \/ SelectFormatReturn
    \/ OptimizePromptCall
    \/ OptimizePromptReturn

SpecStages == InitStages /\ [][NextStages]_vars

-----------------------------------------------------------------------------
(* _apply_fallback_classification alone, on any query, with and without    *)
(* an error.                                                               *)

InitClassify ==
    /\ pc = "classify"
    /\ user_query \in Queries
    /\ path1 \in {"raised", "no_span"}
    /\ msg1 \in (IF path1 = "raised" THEN Messages ELSE {<<>>})
    /\ response1 = NoResponse
    /\ response2 = NoResponse
    /\ path2 = "none"
    /\ msg2 = <<>>
    /\ format_result = PyNone
    /\ format_dict = PyNone
    /\ input_data = PyNone
    /\ optimized_result = PyNone
    /\ calls1 = 0
    /\ calls2 = 0
    /\ ui = "blank"

ApplyFallbackClassification ==
    /\ pc = "classify"
    /\ format_result' =
          _apply_fallback_classification(
              user_query, IF path1 = "raised" THEN Str(msg1) ELSE PyNone)
    /\ pc' = "classified"
    /\ UNCHANGED <<user_query, response1, path1, msg1, format_dict, input_data,
                   response2, path2, msg2, optimized_result, calls1, calls2, ui>>

SpecClassify == InitClassify /\ [][ApplyFallbackClassification]_vars

-----------------------------------------------------------------------------
(* _apply_fallback_optimization alone, on any decision.                    *)

\* "My "
W_MY ==
    <<"M","y"," ">>

OptimizerQueries == Phrases({W_HELLO, W_NEWLINE, W_EXAMPLE}, MaxWords)

\* the decisions optimize_prompt may be handed: each key absent or present;
\* task_type any text (a category name, a text around one, two names, a
\* name in the wrong case), chosen_format inside and outside the four formats
Decisions ==
    {a @@ b @@ c @@ d :
        a \in Field("task_type",
                    {Str(CODING), Str(REASONING), Str(RESEARCH), Str(MULTIMODAL),
                     Str(OPEN_ENDED_CHAT), Str(<<>>), Str(W_MY \o CODING \o W_THIS),
                     Str(RESEARCH \o W_SPACE \o CODING), Str(Lower(CODING))}),
        b \in Field("chosen_format",
                    {Str(JSON_FORMAT), Str(YAML_FORMAT), Str(MARKDOWN_FORMAT),
                     Str(PLAIN_TEXT_FORMAT), Str(Lower(JSON_FORMAT))}),
        c \in Field("confidence", {Num(0), Num(85)}),
        d \in Field("original_query", {Str(q) : q \in OptimizerQueries})}

InitOptimize ==
    /\ pc = "optimize"
    /\ format_dict \in Decisions
    /\ path2 \in {"raised", "no_span"}
    /\ msg2 \in (IF path2 = "raised" THEN Messages ELSE {<<>>})
    /\ user_query = <<>>
    /\ response1 = NoResponse
    /\ response2 = NoResponse
    /\ path1 = "none"
    /\ msg1 = <<>>
    /\ format_result = PyNone
    /\ input_data = PyNone
    /\ optimized_result = PyNone
    /\ calls1 = 0
    /\ calls2 = 0
    /\ ui = "blank"

ApplyFallbackOptimization ==
    /\ pc = "optimize"
    /\ optimized_result' =
          _apply_fallback_optimization(
              format_dict, IF path2 = "raised" THEN Str(msg2) ELSE PyNone)
    /\ pc' = "optimized"
    /\ UNCHANGED <<user_query, response1, path1, msg1, format_result, format_dict,
                   input_data, response2, path2, msg2, calls1, calls2, ui>>

SpecOptimize == InitOptimize /\ [][ApplyFallbackOptimization]_vars

-----------------------------------------------------------------------------
(* The record schemas of the data model, as the properties read them.      *)

TaskTypes == {CODING, REASONING, RESEARCH, OPEN_ENDED_CHAT, MULTIMODAL}

Formats == {JSON_FORMAT, YAML_FORMAT, MARKDOWN_FORMAT, PLAIN_TEXT_FORMAT}

ModelClasses ==
    {REASONING_LLM, CODE_LLM, RESEARCH_LLM, GENERAL_CHAT_LLM, MULTIMODAL_GENERATOR}

\* a Python number (a bool counts as the int 1 or 0) within [0, 1]
NumberInUnitInterval(v) == v.t \in {"num", "bool"} /\ v.n >= 0 /\ v.n <= 100

SchemaFormatDecision(rec) ==
    /\ {"task_type", "chosen_format", "confidence"} \subseteq DOMAIN rec
    /\ rec["task_type"].t = "str" /\ rec["task_type"].s \in TaskTypes
    /\ rec["chosen_format"].t = "str" /\ rec["chosen_format"].s \in Formats
    /\ NumberInUnitInterval(rec["confidence"])

SchemaOptimizationResult(rec) ==
    /\ {"optimized_prompt", "model_class"} \subseteq DOMAIN rec
    /\ rec["optimized_prompt"].t = "str" /\ rec["optimized_prompt"].s # <<>>
    /\ rec["model_class"].t = "str" /\ rec["model_class"].s \in ModelClasses

\* the documents the validation of each stage is specified to accept
ValidDocument1(doc) == "original_query" \in DOMAIN doc /\ SchemaFormatDecision(doc)

ValidDocument2(doc) == SchemaOptimizationResult(doc)

\* the failure modes of a collaborator call: it raises, its reply has no text,
\* no brace-delimited span, a span that does not parse, or an invalid document
FailureMode(response, Valid(_)) ==
    \/ response.kind \in {"raise", "no_content"}
    \/ ~re_search(response.text).found
    \/ ~json_loads(re_search(response.text).span, response.doc).ok
    \/ ~Valid(json_loads(re_search(response.text).span, response.doc).value)

FallbackReasons(marker) == {Str(marker)} \cup {Str(LLM_ERROR \o m) : m \in Messages}

\* a record built by the stage-1 fallback for query q
FallbackConstructed1(rec, q) ==
    /\ DOMAIN rec = {"task_type", "chosen_format", "confidence", "original_query",
                     "fallback_reason"}
    /\ SchemaFormatDecision(rec)
    /\ rec["original_query"] = Str(q)
    /\ rec["fallback_reason"] \in FallbackReasons(RULE_BASED_CLASSIFICATION)

\* a record built by the stage-2 fallback
FallbackConstructed2(rec) ==
    /\ DOMAIN rec = {"optimized_prompt", "model_class", "fallback_reason"}
    /\ SchemaOptimizationResult(rec)
    /\ rec["fallback_reason"] \in FallbackReasons(RULE_BASED_OPTIMIZATION)

FallbackPaths == {"raised", "type_error", "no_span", "parse_error", "invalid"}

-----------------------------------------------------------------------------
(* Properties. *)

\* C1: whatever the query and whatever the collaborator did, the record
\* select_format returned has task_type among the five categories,
\* chosen_format among the four formats, and a confidence that is a number
\* in [0, 1].
C1_ReturnedDecisionSatisfiesSchema ==
    path1 # "none" => SchemaFormatDecision(format_result)

\* C1 witness: select_format returned the collaborator's own document, whose
\* confidence sits on the upper end of the interval.
C1_Witness ==
    /\ path1 = "success"
    /\ format_result["confidence"] = Num(100)
    /\ format_result["task_type"] = Str(RESEARCH)

\* C2: in both stages every failure mode ends with the operation returning
\* the stage's fallback-constructed, schema-conformant record.
C2_FailureReturnsFallback ==
    [][/\ (pc = "select_format_reply" /\ FailureMode(response1, ValidDocument1))
              => /\ pc' = "optimize_prompt"
                 /\ path1' \in FallbackPaths
                 /\ FallbackConstructed1(format_result', user_query)
       /\ (pc = "optimize_prompt_reply" /\ FailureMode(response2, ValidDocument2))
              => /\ pc' = "display"
                 /\ path2' \in FallbackPaths
                 /\ FallbackConstructed2(optimized_result')]_vars

\* C2 witness: stage 1 fell back on a schema-invalid document and stage 2 on
\* a span that does not parse, and both returned.
C2_Witness ==
    /\ pc = "display"
    /\ path1 = "invalid"
    /\ path2 = "parse_error"
    /\ FallbackConstructed1(format_result, user_query)
    /\ FallbackConstructed2(optimized_result)

\* the four keyword sets in their priority order, and the triple of each
KeywordSets ==
    <<coding_keywords, reasoning_keywords, research_keywords, multimodal_keywords>>

SetTriples ==
    << <<CODING, JSON_FORMAT, 80>>, <<REASONING, YAML_FORMAT, 75>>,
       <<RESEARCH, MARKDOWN_FORMAT, 85>>, <<MULTIMODAL, JSON_FORMAT, 70>> >>

\* the sets with a keyword that occurs in the lower-cased query
MatchingSets(q) ==
    {n \in 1..Len(KeywordSets) :
        \E k \in 1..Len(KeywordSets[n]) : IsSubstr(KeywordSets[n][k], Lower(q))}

FirstMatchTriple(q) ==
    LET matching == MatchingSets(q)
    IN  IF matching = {}
        THEN <<OPEN_ENDED_CHAT, PLAIN_TEXT_FORMAT, 60>>
        ELSE SetTriples[CHOOSE n \in matching : \A m \in matching : n <= m]

\* C3: the fallback classification is the triple of the first keyword set, in
\* the order coding, reasoning, research, multimodal, with a keyword that is
\* a substring of the lower-cased query, and the chat triple when no set has one.
C3_FirstMatchingSetWins ==
    pc = "classified" =>
        LET triple == FirstMatchTriple(user_query)
        IN  /\ format_result["task_type"] = Str(triple[1])
            /\ format_result["chosen_format"] = Str(triple[2])
            /\ format_result["confidence"] = Num(triple[3])

\* C3 witness: "summarize this api response" holds a research keyword and a
\* coding keyword, and was classified as coding.
C3_Witness ==
    /\ pc = "classified"
    /\ user_query = W_EXAMPLE
    /\ MatchingSets(user_query) = {1, 3}
    /\ format_result["task_type"] = Str(CODING)
    /\ format_result["confidence"] = Num(80)

\* C4: a fallback triggered by a raised error with message m has
\* fallback_reason "LLM error: " followed by m, for every m, the empty one
\* included; any other fallback has the stage's rule-based marker.
C4_ReasonCarriesEveryMessage ==
    /\ path1 = "raised" => format_result["fallback_reason"] = Str(LLM_ERROR \o msg1)
    /\ path1 \in FallbackPaths \ {"raised"}
          => format_result["fallback_reason"] = Str(RULE_BASED_CLASSIFICATION)
    /\ path2 = "raised" => optimized_result["fallback_reason"] = Str(LLM_ERROR \o msg2)
    /\ path2 \in FallbackPaths \ {"raised"}
          => optimized_result["fallback_reason"] = Str(RULE_BASED_OPTIMIZATION)

\* C5: a returned record holds a fallback_reason only if the invocation took
\* the fallback path: a record returned on the success path never holds one.
C5_ReasonOnlyOnFallback ==
    /\ path1 = "success" => "fallback_reason" \notin DOMAIN format_result
    /\ path2 = "success" => "fallback_reason" \notin DOMAIN optimized_result

\* C6: no exception raised outside select_format and optimize_prompt, a
\* failure of load_agents included, ends the script uncaught.
C6_NoUncaughtException == pc # "crashed"

\* the four category names optimize_prompt's fallback tests, in order, and
\* the class of each
CategoryOrder == <<CODING, REASONING, RESEARCH, MULTIMODAL>>

CategoryClass == <<CODE_LLM, REASONING_LLM, RESEARCH_LLM, MULTIMODAL_GENERATOR>>

ClassOfTaskType(task_type) ==
    LET found == {n \in 1..Len(CategoryOrder) : IsSubstr(CategoryOrder[n], task_type)}
    IN  IF found = {} THEN GENERAL_CHAT_LLM
        ELSE CategoryClass[CHOOSE n \in found : \A m \in found : n <= m]

\* C7: on the fallback path model_class is the class of the first category
\* name, in the order coding, reasoning, research, multimodal, that occurs in
\* task_type, and General chat LLM when none does, whatever the other fields.
C7_ModelClassFollowsTaskType ==
    pc = "optimized" =>
        optimized_result["model_class"] =
            Str(ClassOfTaskType(Get(format_dict, "task_type", Str(<<>>)).s))

\* C7 witness: a task_type that names research before coding got the coding class.
C7_Witness ==
    /\ pc = "optimized"
    /\ "task_type" \in DOMAIN format_dict
    /\ format_dict["task_type"] = Str(RESEARCH \o W_SPACE \o CODING)
    /\ optimized_result["model_class"] = Str(CODE_LLM)

\* C8: on the fallback path the optimized prompt is non-empty and contains
\* the decision's original_query, unmodified, as a contiguous substring.
C8_PromptContainsQuery ==
    pc = "optimized" =>
        /\ optimized_result["optimized_prompt"].t = "str"
        /\ Len(optimized_result["optimized_prompt"].s) > 0
        /\ IsSubstr(Get(format_dict, "original_query", Str(<<>>)).s,
                    optimized_result["optimized_prompt"].s)

\* C8 witness: a query with outer white space and capitals, under a
\* chosen_format that selects the Plain Text template.
C8_Witness ==
    /\ pc = "optimized"
    /\ "original_query" \in DOMAIN format_dict
    /\ format_dict["original_query"] = Str(W_HELLO \o W_NEWLINE)
    /\ "chosen_format" \in DOMAIN format_dict
    /\ format_dict["chosen_format"] = Str(Lower(JSON_FORMAT))
    /\ optimized_result["optimized_prompt"].s =
          PLAIN_TEMPLATE_HEAD \o W_HELLO \o W_NEWLINE \o PLAIN_TEMPLATE_TAIL

\* C9: in a run each stage calls the collaborator at most once, stage 2 is
\* called only after stage 1 returned, and optimize_prompt is handed exactly
\* the record select_format returned.
C9_OneCallPerStageInOrder ==
    /\ calls1 <= 1
    /\ calls2 <= 1
    /\ calls2 = 1 => (calls1 = 1 /\ path1 # "none" /\ response1 = NoResponse)
    /\ calls2 = 1 => format_dict = format_result
    /\ path1 \in FallbackPaths => calls1 = 1
    /\ path2 \in FallbackPaths => calls2 = 1

\* C9 witness: both replies were malformed, both stages were called once, and
\* the fallback record, fallback_reason included, went to optimize_prompt.
C9_Witness ==
    /\ pc = "display"
    /\ path1 = "parse_error"
    /\ path2 = "invalid"
    /\ calls1 = 1
    /\ calls2 = 1
    /\ "fallback_reason" \in DOMAIN format_dict
    /\ format_dict = format_result

\* the template and the model class the two rule sets give each category
TemplateOf(task_type, q) ==
    CASE task_type = CODING -> JSON_TEMPLATE_HEAD \o q \o JSON_TEMPLATE_TAIL
      [] task_type = REASONING -> YAML_TEMPLATE_HEAD \o q \o YAML_TEMPLATE_TAIL
      [] task_type = RESEARCH -> MARKDOWN_TEMPLATE_HEAD \o q \o MARKDOWN_TEMPLATE_TAIL
      [] task_type = MULTIMODAL -> JSON_TEMPLATE_HEAD \o q \o JSON_TEMPLATE_TAIL
      [] task_type = OPEN_ENDED_CHAT -> PLAIN_TEMPLATE_HEAD \o q \o PLAIN_TEMPLATE_TAIL

ClassOf(task_type) ==
    CASE task_type = CODING -> CODE_LLM
      [] task_type = REASONING -> REASONING_LLM
      [] task_type = RESEARCH -> RESEARCH_LLM
      [] task_type = MULTIMODAL -> MULTIMODAL_GENERATOR
      [] task_type = OPEN_ENDED_CHAT -> GENERAL_CHAT_LLM

\* C10: when both stages fall back in one run, the category the classifier
\* gave decides the optimizer's template and model class (coding: JSON and
\* Code-specialized LLM, reasoning: YAML and Reasoning LLM, research: Markdown
\* and Research/long-context LLM, multimodal: JSON and Multimodal generator,
\* chat: Plain Text and General chat LLM), and the prompt embeds the caller's
\* query verbatim.
C10_FallbackRuleSetsAgree ==
    (pc = "display" /\ path1 \in FallbackPaths /\ path2 \in FallbackPaths) =>
        /\ format_result["task_type"].s \in TaskTypes
        /\ optimized_result["optimized_prompt"] =
              Str(TemplateOf(format_result["task_type"].s, user_query))
        /\ optimized_result["model_class"] = Str(ClassOf(format_result["task_type"].s))

\* C10 witness: a query in capitals classified as multimodal by the fallback
\* got the JSON template around the query as typed and the multimodal class.
C10_Witness ==
    /\ pc = "display"
    /\ path1 = "no_span"
    /\ path2 = "raised"
    /\ user_query = W_IMAGE
    /\ format_result["task_type"] = Str(MULTIMODAL)
    /\ optimized_result["model_class"] = Str(MULTIMODAL_GENERATOR)
    /\ optimized_result["optimized_prompt"].s =
          JSON_TEMPLATE_HEAD \o W_IMAGE \o JSON_TEMPLATE_TAIL

====
